---- MODULE Spec2Model ----
(***************************************************************************)
(* A model of py-panda's PandaFile (src/src/py-panda/panda.py): the        *)
(* validated record, its text serialisation to_txt / from_txt, and the     *)
(* harmonic spectrum codec spectrum_to_string / string_to_spectrum.        *)
(*                                                                         *)
(* Text is a sequence of symbols.  A symbol is one character, written as a *)
(* one-character string; a character outside ASCII is written by its code  *)
(* point ("U+0663").  The fixed key and section names that to_txt writes   *)
(* ("Lab_ID", "User Detail", ...) are single symbols: none of them holds   *)
(* '=', ';', '[', ']', ',' or '/' or starts or ends with white space, so   *)
(* strip, split and endswith treat each as a run of ordinary characters.   *)
(***************************************************************************)
EXTENDS Integers, Sequences, FiniteSets, TLC

(***************************************************************************)
(* Python values.  Every value carries its type:                           *)
(*   None, str (v: text), int (v: the integer), list (v: the items) and    *)
(*   float (m, e: the shortest decimal m * 10^e that repr() prints, with   *)
(*   m not a multiple of 10 unless m = 0 and e = 0).                       *)
(***************************************************************************)
None == [t |-> "None"]

PyStr(s) == [t |-> "str", v |-> s]

PyInt(n) == [t |-> "int", v |-> n]

PyList(xs) == [t |-> "list", v |-> xs]

RECURSIVE Normalise(_, _)
Normalise(m, e) ==
    IF m = 0 THEN [t |-> "float", m |-> 0, e |-> 0]
    ELSE IF m % 10 = 0 THEN Normalise(m \div 10, e + 1)
    ELSE [t |-> "float", m |-> m, e |-> e]

PyFloat(m, e) == Normalise(m, e)

IsNumber(x) == x.t \in {"int", "float"}

\* The decimal m * 10^e of a number, int or float.
Decimal(x) == IF x.t = "int" THEN Normalise(x.v, 0) ELSE x

\* Python's ==: numbers compare by value across int and float, lists item by
\* item, values of different kinds are unequal.
RECURSIVE PyEq(_, _)
PyEq(a, b) ==
    IF IsNumber(a) /\ IsNumber(b) THEN Decimal(a) = Decimal(b)
    ELSE IF a.t # b.t THEN FALSE
    ELSE IF a.t = "None" THEN TRUE
    ELSE IF a.t = "str" THEN a.v = b.v
    ELSE /\ Len(a.v) = Len(b.v)
         /\ \A k \in 1..Len(a.v) : PyEq(a.v[k], b.v[k])

(***************************************************************************)
(* str methods.                                                            *)
(***************************************************************************)
WhiteSpace == {" ", "\n", "\t", "\r"}

RECURSIVE LStripChars(_, _)
LStripChars(s, chars) ==
    IF s # <<>> /\ Head(s) \in chars THEN LStripChars(Tail(s), chars) ELSE s

RECURSIVE RStripChars(_, _)
RStripChars(s, chars) ==
    IF s # <<>> /\ s[Len(s)] \in chars
    THEN RStripChars(SubSeq(s, 1, Len(s) - 1), chars)
    ELSE s

\* s.strip(chars)
StripChars(s, chars) == RStripChars(LStripChars(s, chars), chars)

\* s.strip()
Strip(s) == StripChars(s, WhiteSpace)

\* c in s
Contains(s, c) == \E k \in 1..Len(s) : s[k] = c

\* s.endswith(c)
EndsWith(s, c) == s # <<>> /\ s[Len(s)] = c

\* The index of the first c in s, or 0.
RECURSIVE FindFrom(_, _, _)
FindFrom(s, c, k) ==
    IF k > Len(s) THEN 0
    ELSE IF s[k] = c THEN k
    ELSE FindFrom(s, c, k + 1)

\* s.split(c): the pieces between the occurrences of c, always at least one.
RECURSIVE Split(_, _)
Split(s, c) ==
    LET k == FindFrom(s, c, 1)
    IN  IF k = 0 THEN <<s>>
        ELSE <<SubSeq(s, 1, k - 1)>> \o Split(SubSeq(s, k + 1, Len(s)), c)

\* sep.join(parts)
RECURSIVE Join(_, _)
Join(parts, sep) ==
    IF parts = <<>> THEN <<>>
    ELSE IF Len(parts) = 1 THEN parts[1]
    ELSE parts[1] \o <<sep>> \o Join(Tail(parts), sep)

\* file.readlines(): the lines of the text, each with its line break.
RECURSIVE ReadLines(_)
ReadLines(text) ==
    LET k == FindFrom(text, "\n", 1)
    IN  IF text = <<>> THEN <<>>
        ELSE IF k = 0 THEN <<text>>
        ELSE <<SubSeq(text, 1, k)>> \o ReadLines(SubSeq(text, k + 1, Len(text)))

(***************************************************************************)
(* Numbers as text: str(int), repr(float), int(str), float(str).           *)
(***************************************************************************)
DigitChars == <<"0", "1", "2", "3", "4", "5", "6", "7", "8", "9">>

AsciiDigits == {DigitChars[k] : k \in 1..10}

DigitValue(c) == (CHOOSE k \in 1..10 : DigitChars[k] = c) - 1

RECURSIVE NatToStr(_)
NatToStr(n) ==
    IF n < 10 THEN <<DigitChars[n + 1]>>
    ELSE NatToStr(n \div 10) \o <<DigitChars[(n % 10) + 1]>>

\* str(n) of an int
IntToStr(n) == IF n < 0 THEN <<"-">> \o NatToStr(-n) ELSE NatToStr(n)

RECURSIVE Zeros(_)
Zeros(n) == IF n <= 0 THEN <<>> ELSE <<"0">> \o Zeros(n - 1)

\* Positional notation: the digits with the point after the first `point`
\* of them.
Positional(digits, point) ==
    IF point >= Len(digits)
    THEN digits \o Zeros(point - Len(digits)) \o <<".", "0">>
    ELSE IF point > 0
    THEN SubSeq(digits, 1, point) \o <<".">> \o SubSeq(digits, point + 1, Len(digits))
    ELSE <<"0", ".">> \o Zeros(-point) \o digits

\* Exponent notation: d[.ddd]e+XX, at least two exponent digits.
Exponent(digits, exp10) ==
    <<digits[1]>>
    \o (IF Len(digits) > 1 THEN <<".">> \o SubSeq(digits, 2, Len(digits)) ELSE <<>>)
    \o <<"e">> \o (IF exp10 < 0 THEN <<"-">> ELSE <<"+">>)
    \o (IF exp10 > -10 /\ exp10 < 10 THEN <<"0">> ELSE <<>>)
    \o NatToStr(IF exp10 < 0 THEN -exp10 ELSE exp10)

\* The digits of |x| with the point after the first `point` of them.
Repr(digits, point) ==
    IF digits = <<"0">> THEN <<"0", ".", "0">>
    ELSE IF point - 1 >= -4 /\ point - 1 < 16 THEN Positional(digits, point)
    ELSE Exponent(digits, point - 1)

\* repr(x) of a float: the shortest digits, in positional notation when the
\* decimal exponent of the first digit is in -4..15 and in exponent notation
\* otherwise.
FloatToStr(x) ==
    (IF x.m < 0 THEN <<"-">> ELSE <<>>)
    \o Repr(NatToStr(IF x.m < 0 THEN -x.m ELSE x.m),
            Len(NatToStr(IF x.m < 0 THEN -x.m ELSE x.m)) + x.e)

\* str(x) of any value the record holds (what an f-string or map(str, ..) gives)
ToStr(x) ==
    IF x.t = "int" THEN IntToStr(x.v)
    ELSE IF x.t = "float" THEN FloatToStr(x)
    ELSE IF x.t = "str" THEN x.v
    ELSE <<"None">>

AllDigits(s) == \A k \in 1..Len(s) : s[k] \in AsciiDigits

RECURSIVE DigitsValue(_)
DigitsValue(s) ==
    IF s = <<>> THEN 0
    ELSE 10 * DigitsValue(SubSeq(s, 1, Len(s) - 1)) + DigitValue(s[Len(s)])

Failed == [ok |-> FALSE]

\* A signed run of digits: [ok, v].
SignedDigits(s) ==
    LET signed == s # <<>> /\ s[1] \in {"+", "-"}
        body   == IF signed THEN Tail(s) ELSE s
    IN  IF body = <<>> \/ ~AllDigits(body) THEN Failed
        ELSE [ok |-> TRUE,
              v  |-> IF signed /\ s[1] = "-" THEN -DigitsValue(body) ELSE DigitsValue(body)]

\* int(s): white space around the text is dropped, then an optional sign and
\* decimal digits (leading zeros allowed); anything else is a ValueError.
\* (Digit groups joined by '_' are not among the texts the model draws.)
ParseInt(s) ==
    LET r == SignedDigits(Strip(s))
    IN  IF r.ok THEN [ok |-> TRUE, v |-> PyInt(r.v)] ELSE Failed

\* float(s) reads the text, white space around it dropped, character by
\* character: [sign] digits [. digits] [e [sign] digits], with a digit on at
\* least one side of the point.  st is what was read so far: the phase, the
\* mantissa m of nd digits, fd of them after the point, and the exponent ex.
FloatStart ==
    [phase |-> "start", neg |-> FALSE, m |-> 0, nd |-> 0, fd |-> 0,
     eneg |-> FALSE, ex |-> 0]

FloatStep(st, c) ==
    IF c \in AsciiDigits THEN
        IF st.phase \in {"start", "signed", "int"}
        THEN [st EXCEPT !.phase = "int", !.m = 10 * st.m + DigitValue(c), !.nd = st.nd + 1]
        ELSE IF st.phase = "frac"
        THEN [st EXCEPT !.m = 10 * st.m + DigitValue(c), !.nd = st.nd + 1, !.fd = st.fd + 1]
        ELSE IF st.phase \in {"e", "esigned", "exp"}
        THEN [st EXCEPT !.phase = "exp", !.ex = 10 * st.ex + DigitValue(c)]
        ELSE [st EXCEPT !.phase = "bad"]
    ELSE IF c \in {"+", "-"} THEN
        IF st.phase = "start" THEN [st EXCEPT !.phase = "signed", !.neg = (c = "-")]
        ELSE IF st.phase = "e" THEN [st EXCEPT !.phase = "esigned", !.eneg = (c = "-")]
        ELSE [st EXCEPT !.phase = "bad"]
    ELSE IF c = "." THEN
        IF st.phase \in {"start", "signed", "int"} THEN [st EXCEPT !.phase = "frac"]
        ELSE [st EXCEPT !.phase = "bad"]
    ELSE IF c \in {"e", "E"} THEN
        IF st.phase \in {"int", "frac"} /\ st.nd > 0 THEN [st EXCEPT !.phase = "e"]
        ELSE [st EXCEPT !.phase = "bad"]
    ELSE [st EXCEPT !.phase = "bad"]

RECURSIVE FloatScan(_, _, _)
FloatScan(s, k, st) ==
    IF k > Len(s) THEN st ELSE FloatScan(s, k + 1, FloatStep(st, s[k]))

FloatResult(st) ==
    IF (st.phase \in {"int", "frac"} /\ st.nd > 0) \/ st.phase = "exp"
    THEN [ok |-> TRUE,
          v  |-> PyFloat(IF st.neg THEN -st.m ELSE st.m,
                         (IF st.eneg THEN -st.ex ELSE st.ex) - st.fd)]
    ELSE Failed

\* float(s); anything outside the grammar is a ValueError.
\* (nan, inf and '_' groups are not among the texts the model draws.)
ParseFloat(s) == FloatResult(FloatScan(Strip(s), 1, FloatStart))

(***************************************************************************)
(* PandaFile: the class constants.                                         *)
(***************************************************************************)
Letters ==
    {"A", "B", "C", "D", "E", "F", "G", "H", "I", "J", "K", "L", "M",
     "N", "O", "P", "Q", "R", "S", "T", "U", "V", "W", "X", "Y", "Z",
     "a", "b", "c", "d", "e", "f", "g", "h", "i", "j", "k", "l", "m",
     "n", "o", "p", "q", "r", "s", "t", "u", "v", "w", "x", "y", "z"}

\* U+00E2, U+20AC and U+02DC are the three characters the source literal
\* holds between '@' and '*'.
ALLOWED_CHARS ==
    Letters \cup AsciiDigits
    \cup {"+", "-", ".", "_", ":", "|", "<", ">", "?", "!", "$", "%", "&", "=",
          "(", ")", "[", "]", "{", "}", "\\", "/", "@",
          "U+00E2", "U+20AC", "U+02DC", "*", " "}

MAX_LENGTHS ==
    [lab_id |-> 4, user_id |-> 4, category |-> 1, sub_category |-> 2,
     sell_year |-> 4, unique_id |-> 24, manufacturer |-> 64,
     product_code |-> 64, sell_country |-> 2, description |-> 500]

\* Characters outside ASCII for which str.isdigit() is true (ARABIC-INDIC
\* DIGIT THREE, SUPERSCRIPT TWO): the two the model draws.
UnicodeDigits == {"U+0663", "U+00B2"}

\* value.isdigit(): not empty, and every character is a digit.
IsDigit(value) ==
    /\ value # <<>>
    /\ \A k \in 1..Len(value) : value[k] \in AsciiDigits \cup UnicodeDigits

NoError == [type |-> "none"]

Error(type, rule, name) == [type |-> type, rule |-> rule, name |-> name]

\* _validate_property with the length checked before the characters.
validate_property_LengthFirst(property_name, value, digits_only) ==
    IF digits_only /\ ~IsDigit(value)
    THEN [raised |-> Error("ValueError", "digits", property_name), ret |-> None]
    ELSE IF Len(value) > MAX_LENGTHS[property_name]
    THEN [raised |-> Error("ValueError", "length", property_name), ret |-> None]
    ELSE IF \E k \in 1..Len(value) : value[k] \notin ALLOWED_CHARS
    THEN [raised |-> Error("ValueError", "characters", property_name), ret |-> None]
    ELSE [raised |-> NoError, ret |-> PyStr(value)]

\* _validate_property: [raised, ret].
validate_property(property_name, value, digits_only) ==
    IF digits_only /\ ~IsDigit(value)
    THEN [raised |-> Error("ValueError", "digits", property_name), ret |-> None]
    ELSE IF \E k \in 1..Len(value) : value[k] \notin ALLOWED_CHARS
    THEN [raised |-> Error("ValueError", "characters", property_name), ret |-> None]
    ELSE IF Len(value) > MAX_LENGTHS[property_name]
    THEN [raised |-> Error("ValueError", "length", property_name), ret |-> None]
    ELSE [raised |-> NoError, ret |-> PyStr(value)]

(***************************************************************************)
(* PandaFile.__init__                                                      *)
(***************************************************************************)
\* The validated fields in the order __init__ validates them.
ValidatedFields ==
    <<"lab_id", "user_id", "category", "sub_category", "unique_id",
      "manufacturer", "product_code", "sell_country", "sell_year", "description">>

\* The fields __init__ validates with digits_only=True.
DigitsOnlyFields == {"lab_id", "user_id", "category", "sub_category", "sell_year"}

\* The fields __init__ passes through str() before validating them.
StrFields == {"category", "sub_category"}

Fields ==
    {"lab_id", "user_id", "category", "sub_category", "unique_id", "manufacturer",
     "product_code", "sell_country", "sell_year", "rated_power", "nominal_frequency",
     "nominal_voltage", "supply_source", "description", "current_harmonics",
     "voltage_harmonics", "sample_rate", "current_data", "voltage_data"}

IsValidated(f) == \E k \in 1..Len(ValidatedFields) : ValidatedFields[k] = f

\* The call of _validate_property that __init__ makes for field f of a.
FieldCheck(a, f) ==
    validate_property(f, IF f \in StrFields THEN ToStr(a[f]) ELSE a[f].v,
                      f \in DigitsOnlyFields)

\* __init__(a): [raised, obj].  The first validation that fails raises; the
\* other fields are stored as given.
PandaFile(a) ==
    LET bad == {k \in 1..Len(ValidatedFields) :
                    FieldCheck(a, ValidatedFields[k]).raised # NoError}
        first == CHOOSE k \in bad : \A j \in bad : k <= j
    IN  IF bad # {}
        THEN [raised |-> FieldCheck(a, ValidatedFields[first]).raised, obj |-> None]
        ELSE [raised |-> NoError,
              obj |-> [f \in Fields |->
                          IF IsValidated(f) THEN FieldCheck(a, f).ret ELSE a[f]]]

(***************************************************************************)
(* PandaFile.to_txt                                                        *)
(***************************************************************************)
Header(name) == <<"[", name, "]", "\n">>

KeyLine(key, text) == <<key, " ", "=", " ">> \o text \o <<";", "\n">>

\* ','.join(map(str, xs))
JoinNumbers(xs) == Join([k \in 1..Len(xs) |-> ToStr(xs[k])], ",")

\* What to_txt writes up to and including the Voltage_Harmonics line.
FixedPart(self) ==
    <<"TUDHDB_TXT_v01", "\n">>
    \o Header("User Detail")
    \o KeyLine("Lab_ID", ToStr(self.lab_id))
    \o KeyLine("User_ID", ToStr(self.user_id))
    \o Header("EUT")
    \o KeyLine("Category", ToStr(self.category))
    \o KeyLine("Sub_Category", ToStr(self.sub_category))
    \o KeyLine("Unique_ID", ToStr(self.unique_id))
    \o KeyLine("Manufacturer", ToStr(self.manufacturer))
    \o KeyLine("Product_code", ToStr(self.product_code))
    \o KeyLine("Sell_Country", ToStr(self.sell_country))
    \o KeyLine("Sell_Year", ToStr(self.sell_year))
    \o KeyLine("Rated_Power", ToStr(self.rated_power))
    \o KeyLine("Nominal_Frequency", ToStr(self.nominal_frequency))
    \o KeyLine("Nominal_Voltage", ToStr(self.nominal_voltage))
    \o KeyLine("Supply_Source", ToStr(self.supply_source))
    \o KeyLine("Description", ToStr(self.description))
    \o Header("Harmonics")
    \o KeyLine("Current_Harmonics", ToStr(self.current_harmonics))
    \o KeyLine("Voltage_Harmonics", ToStr(self.voltage_harmonics))

\* to_txt(self): [raised, text].  map(str, None) raises TypeError once the
\* lines before it are written; the file keeps what was written.
to_txt(self) ==
    LET upToRate == FixedPart(self) \o Header("Waveforms")
                    \o KeyLine("Sampling_Rate", ToStr(self.sample_rate))
        upToCurrent == upToRate
                       \o KeyLine("Current_Data", JoinNumbers(self.current_data.v))
    IN  IF self.sample_rate = None
        THEN [raised |-> NoError, text |-> FixedPart(self)]
        ELSE IF self.current_data.t # "list"
        THEN [raised |-> Error("TypeError", "iterable", "current_data"),
              text |-> upToRate]
        ELSE IF self.voltage_data.t # "list"
        THEN [raised |-> Error("TypeError", "iterable", "voltage_data"),
              text |-> upToCurrent]
        ELSE [raised |-> NoError,
              text |-> upToCurrent
                       \o KeyLine("Voltage_Data", JoinNumbers(self.voltage_data.v))]

(***************************************************************************)
(* PandaFile.from_txt                                                      *)
(***************************************************************************)
\* A dict: a function from its keys.
EmptyDict == <<>>

Put(dict, key, val) ==
    [x \in (DOMAIN dict) \cup {key} |-> IF x = key THEN val ELSE dict[x]]

\* The body of the loop over the lines: [raised, data, section] after one
\* line.  section is None or the str of the section that is open.
ScanLine(line, data, section) ==
    LET parts == Split(line, "=")
        name  == StripChars(Strip(line), {"[", "]"})
    IN  IF EndsWith(Strip(line), "]")
        THEN [raised |-> NoError, data |-> Put(data, name, EmptyDict),
              section |-> PyStr(name)]
        ELSE IF Contains(line, "=")
        THEN IF Len(parts) # 2
             THEN [raised |-> Error("ValueError", "unpack", "line"),
                   data |-> data, section |-> section]
             ELSE IF section = None
             THEN [raised |-> Error("KeyError", "missing", "None"),
                   data |-> data, section |-> section]
             ELSE [raised |-> NoError,
                   data |-> Put(data, section.v,
                                Put(data[section.v], Strip(parts[1]),
                                    Strip(Split(parts[2], ";")[1]))),
                   section |-> section]
        ELSE [raised |-> NoError, data |-> data, section |-> section]

\* The arguments of the cls(...) call in the order they are evaluated: the
\* field, where its text is looked up and how the text is converted.
\* optional: the three that are None unless 'Waveforms' is in data.
Arguments ==
    <<[field |-> "lab_id", section |-> "User Detail", key |-> "Lab_ID", conv |-> "str", optional |-> FALSE],
      [field |-> "user_id", section |-> "User Detail", key |-> "User_ID", conv |-> "str", optional |-> FALSE],
      [field |-> "category", section |-> "EUT", key |-> "Category", conv |-> "int", optional |-> FALSE],
      [field |-> "sub_category", section |-> "EUT", key |-> "Sub_Category", conv |-> "int", optional |-> FALSE],
      [field |-> "unique_id", section |-> "EUT", key |-> "Unique_ID", conv |-> "str", optional |-> FALSE],
      [field |-> "manufacturer", section |-> "EUT", key |-> "Manufacturer", conv |-> "str", optional |-> FALSE],
      [field |-> "product_code", section |-> "EUT", key |-> "Product_code", conv |-> "str", optional |-> FALSE],
      [field |-> "sell_country", section |-> "EUT", key |-> "Sell_Country", conv |-> "str", optional |-> FALSE],
      [field |-> "sell_year", section |-> "EUT", key |-> "Sell_Year", conv |-> "str", optional |-> FALSE],
      [field |-> "rated_power", section |-> "EUT", key |-> "Rated_Power", conv |-> "str", optional |-> FALSE],
      [field |-> "nominal_frequency", section |-> "EUT", key |-> "Nominal_Frequency", conv |-> "float", optional |-> FALSE],
      [field |-> "nominal_voltage", section |-> "EUT", key |-> "Nominal_Voltage", conv |-> "int", optional |-> FALSE],
      [field |-> "supply_source", section |-> "EUT", key |-> "Supply_Source", conv |-> "int", optional |-> FALSE],
      [field |-> "description", section |-> "EUT", key |-> "Description", conv |-> "str", optional |-> FALSE],
      [field |-> "current_harmonics", section |-> "Harmonics", key |-> "Current_Harmonics", conv |-> "str", optional |-> FALSE],
      [field |-> "voltage_harmonics", section |-> "Harmonics", key |-> "Voltage_Harmonics", conv |-> "str", optional |-> FALSE],
      [field |-> "sample_rate", section |-> "Waveforms", key |-> "Sampling_Rate", conv |-> "int", optional |-> TRUE],
      [field |-> "current_data", section |-> "Waveforms", key |-> "Current_Data", conv |-> "floats", optional |-> TRUE],
      [field |-> "voltage_data", section |-> "Waveforms", key |-> "Voltage_Data", conv |-> "floats", optional |-> TRUE]>>

\* [float(i) for i in text.split(',')]: [ok, v].
ParseFloats(text) ==
    LET pieces == Split(text, ",")
    IN  IF \E k \in 1..Len(pieces) : ~ParseFloat(pieces[k]).ok THEN Failed
        ELSE [ok |-> TRUE,
              v  |-> PyList([k \in 1..Len(pieces) |-> ParseFloat(pieces[k]).v])]

Convert(conv, text) ==
    IF conv = "int" THEN ParseInt(text)
    ELSE IF conv = "float" THEN ParseFloat(text)
    ELSE IF conv = "floats" THEN ParseFloats(text)
    ELSE [ok |-> TRUE, v |-> PyStr(text)]

\* The argument with a key that is missing from its section read as None
\* (data[section].get(key)).
Argument_MissingKeyIsNone(data, arg) ==
    IF arg.optional /\ <<arg.section>> \notin DOMAIN data
    THEN [raised |-> NoError, v |-> None]
    ELSE IF <<arg.section>> \notin DOMAIN data
    THEN [raised |-> Error("KeyError", "missing", arg.section), v |-> None]
    ELSE IF <<arg.key>> \notin DOMAIN data[<<arg.section>>]
    THEN [raised |-> NoError, v |-> None]
    ELSE IF ~Convert(arg.conv, data[<<arg.section>>][<<arg.key>>]).ok
    THEN [raised |-> Error("ValueError", "conversion", arg.field), v |-> None]
    ELSE [raised |-> NoError,
          v |-> Convert(arg.conv, data[<<arg.section>>][<<arg.key>>]).v]

\* One argument of the cls(...) call: [raised, v].
Argument(data, arg) ==
    IF arg.optional /\ <<arg.section>> \notin DOMAIN data
    THEN [raised |-> NoError, v |-> None]
    ELSE IF <<arg.section>> \notin DOMAIN data
    THEN [raised |-> Error("KeyError", "missing", arg.section), v |-> None]
    ELSE IF <<arg.key>> \notin DOMAIN data[<<arg.section>>]
    THEN [raised |-> Error("KeyError", "missing", arg.key), v |-> None]
    ELSE IF ~Convert(arg.conv, data[<<arg.section>>][<<arg.key>>]).ok
    THEN [raised |-> Error("ValueError", "conversion", arg.field), v |-> None]
    ELSE [raised |-> NoError,
          v |-> Convert(arg.conv, data[<<arg.section>>][<<arg.key>>]).v]

ArgumentOf(f) == CHOOSE k \in 1..Len(Arguments) : Arguments[k].field = f

\* The return statement of from_txt: [raised, obj].  The first argument that
\* raises ends the call; otherwise __init__ runs on the arguments.
Return(data) ==
    LET bad   == {k \in 1..Len(Arguments) : Argument(data, Arguments[k]).raised # NoError}
        first == CHOOSE k \in bad : \A j \in bad : k <= j
    IN  IF bad # {}
        THEN [raised |-> Argument(data, Arguments[first]).raised, obj |-> None]
        ELSE PandaFile([f \in Fields |-> Argument(data, Arguments[ArgumentOf(f)]).v])

(***************************************************************************)
(* PandaFile.spectrum_to_string and PandaFile.string_to_spectrum           *)
(***************************************************************************)
\* The filter with m == 0 for np.isclose(m, 0).
IsCloseToZero_Exact(m) == Decimal(m).m = 0

\* np.isclose(m, 0) with numpy's default tolerances: |m| <= 1e-08.
IsCloseToZero(m) ==
    LET d     == Decimal(m)
        a     == IF d.m < 0 THEN -d.m ELSE d.m
        exp10 == Len(NatToStr(a)) - 1 + d.e
    IN  d.m = 0 \/ exp10 < -8 \/ (exp10 = -8 /\ a = 1)

\* The indices the list comprehension keeps, in order.
RECURSIVE KeptFrom(_, _)
KeptFrom(magnitudes, k) ==
    IF k > Len(magnitudes) THEN <<>>
    ELSE (IF IsCloseToZero(magnitudes[k]) THEN <<>> ELSE <<k>>)
         \o KeptFrom(magnitudes, k + 1)

Kept(magnitudes) == KeptFrom(magnitudes, 1)

\* f'{harmonic_order},{magnitude_rms},{phase_angle}/'
Entry(h, m, p) == ToStr(h) \o <<",">> \o ToStr(m) \o <<",">> \o ToStr(p) \o <<"/">>

RECURSIVE Entries(_, _, _, _)
Entries(orders, magnitudes, phases, kept) ==
    IF kept = <<>> THEN <<>>
    ELSE Entry(orders[Head(kept)], magnitudes[Head(kept)], phases[Head(kept)])
         \o Entries(orders, magnitudes, phases, Tail(kept))

\* spectrum_to_string returning '' when nothing is kept.
spectrum_to_string_EmptyString(orders, magnitudes, phases) ==
    IF Len(orders) # Len(magnitudes) \/ Len(orders) # Len(phases)
    THEN [raised |-> Error("ValueError", "length", "spectrum"), ret |-> None]
    ELSE IF Kept(magnitudes) = <<>>
    THEN [raised |-> NoError, ret |-> PyStr(<<>>)]
    ELSE [raised |-> NoError,
          ret |-> PyStr(SubSeq(Entries(orders, magnitudes, phases, Kept(magnitudes)), 1,
                               Len(Entries(orders, magnitudes, phases, Kept(magnitudes))) - 1))]

\* spectrum_to_string: [raised, ret].  zip(*[]) yields no tuple, so that the
\* assignment to the three filtered_ names raises when nothing is kept.
spectrum_to_string(orders, magnitudes, phases) ==
    LET kept == Kept(magnitudes)
        text == Entries(orders, magnitudes, phases, kept)
    IN  IF Len(orders) # Len(magnitudes) \/ Len(orders) # Len(phases)
        THEN [raised |-> Error("ValueError", "length", "spectrum"), ret |-> None]
        ELSE IF kept = <<>>
        THEN [raised |-> Error("ValueError", "unpack", "filtered"), ret |-> None]
        ELSE [raised |-> NoError, ret |-> PyStr(SubSeq(text, 1, Len(text) - 1))]

\* string_to_spectrum: [raised, ret], ret the three lists.
string_to_spectrum(harmonic_string) ==
    LET text  == IF EndsWith(harmonic_string, "/")
                 THEN SubSeq(harmonic_string, 1, Len(harmonic_string) - 1)
                 ELSE harmonic_string
        harmonics == Split(text, "/")
        n     == Len(harmonics)
        parts == [k \in 1..n |-> Split(harmonics[k], ",")]
        column(c) == PyList([k \in 1..n |-> ParseFloat(parts[k][c]).v])
        bad(k) == Len(parts[k]) # 3 \/ \E c \in 1..3 : ~ParseFloat(parts[k][c]).ok
        first == CHOOSE k \in 1..n : bad(k) /\ \A j \in 1..n : bad(j) => k <= j
    IN  IF \E k \in 1..n : bad(k)
        THEN [raised |-> Error("ValueError",
                               IF Len(parts[first]) # 3 THEN "unpack" ELSE "conversion",
                               "harmonic"),
              ret |-> None]
        ELSE [raised |-> NoError, ret |-> <<column(1), column(2), column(3)>>]

(***************************************************************************)
(* The state: a script that calls the class.                               *)
(***************************************************************************)
VARIABLES
    pc,                 \* the statement the script is at
    op,                 \* the call that ran last
    raised,             \* the exception that ended the script, or NoError
    args,               \* the arguments of PandaFile(...)
    self,               \* the PandaFile constructed, or None
    file,               \* the text of the file at file_path
    lines,              \* from_txt: lines
    idx,                \* from_txt: the index in lines of the next line of the loop
    data,               \* from_txt: data
    section,            \* from_txt: section
    loaded,             \* the PandaFile from_txt returned, or None
    property_name,      \* _validate_property: property_name
    value,              \* _validate_property: value
    validated,          \* what _validate_property returned, or None
    harmonic_orders,    \* spectrum_to_string: harmonic_orders
    magnitudes_rms,     \* spectrum_to_string: magnitudes_rms
    phase_angle_degree, \* spectrum_to_string: phase_angle_degree
    spectrum_string,    \* what spectrum_to_string returned, or None
    spectrum            \* what string_to_spectrum returned, or None

fileVars == <<args, self, file, lines, idx, data, section, loaded>>

validateVars == <<property_name, value, validated>>

spectrumVars ==
    <<harmonic_orders, magnitudes_rms, phase_angle_degree, spectrum_string, spectrum>>

vars == <<pc, op, raised, fileVars, validateVars, spectrumVars>>

FileIdle ==
    /\ args = None /\ self = None /\ file = <<>> /\ lines = <<>> /\ idx = 0
    /\ data = EmptyDict /\ section = None /\ loaded = None

ValidateIdle == property_name = "" /\ value = <<>> /\ validated = None

SpectrumIdle ==
    /\ harmonic_orders = <<>> /\ magnitudes_rms = <<>> /\ phase_angle_degree = <<>>
    /\ spectrum_string = None /\ spectrum = None

(***************************************************************************)
(* Bounds and the inputs drawn within them.                                *)
(***************************************************************************)
\* The longest text drawn character by character for _validate_property.
MaxValueLen == 3

\* The most entries of a spectrum.
MaxHarmonics == 2

\* The most samples of a waveform.
MaxSamples == 1

\* The most lines of a document drawn line by line.
MaxLines == 3

\* All texts of at most n characters over an alphabet.
Texts(alphabet, n) == UNION {[1..k -> alphabet] : k \in 0..n}

Run(c, n) == [k \in 1..n |-> c]

ValueChars == {"7", "a", "=", ";", "U+0663"}

\* The values drawn for a validated field: every short text, and runs of a
\* digit or a letter as long as the field's maximum and one longer, alone or
\* followed by a character that is not allowed.
Values(f) ==
    Texts(ValueChars, MaxValueLen)
    \cup {Run(c, n) \o tail : c \in {"7", "a"},
                              n \in {MAX_LENGTHS[f], MAX_LENGTHS[f] + 1},
                              tail \in {<<>>, <<";">>}}

Orders == {PyInt(1), PyFloat(25, -1)}

Magnitudes == {PyFloat(0, 0), PyFloat(5, -9), PyFloat(11, -9), PyFloat(2300, -1)}

Phases == {PyFloat(0, 0), PyFloat(-1805, -1)}

Samples == {PyFloat(5, -1), PyFloat(-2, 0)}

\* None, or a list of at most MaxSamples samples.
WaveformValues == {None} \cup {PyList(w) : w \in Texts(Samples, MaxSamples)}

BaseArgs ==
    [lab_id            |-> PyStr(<<"1", "2", "3", "4">>),
     user_id           |-> PyStr(<<"1", "2">>),
     category          |-> PyInt(6),
     sub_category      |-> PyInt(10),
     unique_id         |-> PyStr(<<"a">>),
     manufacturer      |-> PyStr(<<"T", "U", " ", "D">>),
     product_code      |-> PyStr(<<"p", "-", "1">>),
     sell_country      |-> PyStr(<<"D", "E">>),
     sell_year         |-> PyStr(<<"2", "0", "2", "0">>),
     rated_power       |-> PyFloat(15, -1),
     nominal_frequency |-> PyFloat(50, 0),
     nominal_voltage   |-> PyInt(230),
     supply_source     |-> PyInt(1),
     description       |-> PyStr(<<"a", " ", "b">>),
     current_harmonics |-> PyStr(<<"1", ",", "1", "6", ".", "0", ",", "0", ".", "0">>),
     voltage_harmonics |-> PyStr(<<"1", ",", "2", "3", "0", ".", "0", ",", "0", ".", "0">>),
     sample_rate       |-> None,
     current_data      |-> None,
     voltage_data      |-> None]

\* The arguments drawn for PandaFile(...): BaseArgs with these fields varied.
ArgSets ==
    {[BaseArgs EXCEPT !.lab_id = l, !.unique_id = u, !.rated_power = r,
                      !.nominal_voltage = n, !.description = d,
                      !.sample_rate = s, !.current_data = c, !.voltage_data = v] :
        l \in {PyStr(<<"1", "2", "3", "4">>), PyStr(<<"1", "2", "a">>)},
        u \in {PyStr(<<"a">>), PyStr(<<"a", "=", "b">>), PyStr(<<" ", "a">>)},
        r \in {PyFloat(15, -1), PyStr(<<"N", "A">>)},
        n \in {PyInt(230), PyFloat(230, 0)},
        d \in {PyStr(<<"a", " ", "b">>), PyStr(<<>>)},
        s \in {None, PyInt(1000)},
        c \in WaveformValues,
        v \in WaveformValues}

(***************************************************************************)
(* The documents drawn for from_txt.                                       *)
(***************************************************************************)
BaseFile == PandaFile(BaseArgs).obj

\* A key line, or nothing when the text is None.
OptionalLine(key, text) == IF text = None THEN <<>> ELSE KeyLine(key, text.v)

RateTexts == {None, PyStr(<<"1", "0", "0", "0">>), PyStr(<<"x">>)}

\* None, or at most MaxSamples pieces, each a number or not, joined by ','.
DataTexts ==
    {None} \cup {PyStr(Join(w, ",")) : w \in Texts({<<"0", ".", "5">>, <<"x">>}, MaxSamples)}

\* The fixed part as to_txt writes it, then a [Waveforms] section with each
\* of its header and its three keys there or not, and each value numeric or
\* not.
WaveformDocs ==
    {FixedPart(BaseFile)
     \o (IF h THEN Header("Waveforms") ELSE <<>>)
     \o OptionalLine("Sampling_Rate", r)
     \o OptionalLine("Current_Data", c)
     \o OptionalLine("Voltage_Data", v) :
        h \in BOOLEAN, r \in RateTexts, c \in DataTexts, v \in DataTexts}

FullLines ==
    ReadLines(to_txt([BaseFile EXCEPT !.sample_rate = PyInt(1000),
                                      !.current_data = PyList(<<PyFloat(5, -1)>>),
                                      !.voltage_data = PyList(<<PyFloat(-2, 0)>>)]).text)

RECURSIVE Flatten(_)
Flatten(ls) == IF ls = <<>> THEN <<>> ELSE Head(ls) \o Flatten(Tail(ls))

AltTexts ==
    {<<"0", "7">>, <<"+", "7">>, <<"1", "2", "3", "4", "5">>, <<"a", "=", "b">>,
     <<"2", "3", "0", ".", "0">>, <<"x">>, <<>>}

StrayLines ==
    {<<"s", "t", "r", "a", "y", "\n">>, <<"k", " ", "=", " ", "v", "\n">>, <<"\n">>}

\* A complete document as to_txt writes it, with one line dropped, or one
\* key line's value replaced, or one stray line put in.
MutatedDocs ==
    LET n == Len(FullLines)
        without(k) == SubSeq(FullLines, 1, k - 1) \o SubSeq(FullLines, k + 1, n)
        keyOf(k)   == Strip(Split(FullLines[k], "=")[1])
    IN  {Flatten(without(k)) : k \in 1..n}
        \cup {Flatten([FullLines EXCEPT ![k] = KeyLine(keyOf(k)[1], t)]) :
                k \in {j \in 1..n : Contains(FullLines[j], "=")}, t \in AltTexts}
        \cup {Flatten(SubSeq(FullLines, 1, k) \o <<l>> \o SubSeq(FullLines, k + 1, n)) :
                k \in 0..n, l \in StrayLines}

ScanLines ==
    {<<"[", "A", "]", "\n">>,
     <<" ", "k", " ", "=", " ", "v", " ", ";", " ", "w", "\n">>,
     <<"k", "=", "a", "=", "b", ";", "\n">>,
     <<"k", " ", "=", " ", "v", "]", "\n">>,
     <<"s", "t", "r", "a", "y", "\n">>,
     <<"j", "=", "u">>}

\* Any lines, at most MaxLines of them.
ShortDocs == {Flatten(ls) : ls \in Texts(ScanLines, MaxLines)}

Docs == WaveformDocs \cup MutatedDocs \cup ShortDocs

(***************************************************************************)
(* The script's steps.                                                     *)
(***************************************************************************)
\* PandaFile(args)
Construct ==
    /\ pc = "PandaFile"
    /\ LET r == PandaFile(args)
       IN  /\ self' = r.obj
           /\ raised' = r.raised
           /\ pc' = IF r.raised = NoError THEN "to_txt" ELSE "raised"
    /\ op' = "PandaFile"
    /\ UNCHANGED <<args, file, lines, idx, data, section, loaded>>
    /\ UNCHANGED <<validateVars, spectrumVars>>

\* self.to_txt(file_path)
ToTxt ==
    /\ pc = "to_txt"
    /\ LET r == to_txt(self)
       IN  /\ file' = r.text
           /\ raised' = r.raised
           /\ pc' = IF r.raised = NoError THEN "from_txt" ELSE "raised"
    /\ op' = "to_txt"
    /\ UNCHANGED <<args, self, lines, idx, data, section, loaded>>
    /\ UNCHANGED <<validateVars, spectrumVars>>

\* PandaFile.from_txt(file_path), up to the loop
FromTxtOpen ==
    /\ pc = "from_txt"
    /\ lines' = ReadLines(file)
    /\ data' = EmptyDict
    /\ section' = None
    /\ idx' = 1
    /\ pc' = "for line"
    /\ op' = "from_txt"
    /\ UNCHANGED <<raised, args, self, file, loaded>>
    /\ UNCHANGED <<validateVars, spectrumVars>>

\* one pass of the loop
FromTxtLine ==
    /\ pc = "for line"
    /\ idx <= Len(lines)
    /\ LET r == ScanLine(lines[idx], data, section)
       IN  /\ data' = r.data
           /\ section' = r.section
           /\ raised' = r.raised
           /\ pc' = IF r.raised = NoError THEN "for line" ELSE "raised"
           /\ idx' = IF r.raised = NoError THEN idx + 1 ELSE idx
    /\ UNCHANGED <<op, args, self, file, lines, loaded>>
    /\ UNCHANGED <<validateVars, spectrumVars>>

\* the return statement, once the loop is over
FromTxtReturn ==
    /\ pc = "for line"
    /\ idx > Len(lines)
    /\ LET r == Return(data)
       IN  /\ loaded' = r.obj
           /\ raised' = r.raised
           /\ pc' = IF r.raised = NoError THEN "done" ELSE "raised"
    /\ UNCHANGED <<op, args, self, file, lines, idx, data, section>>
    /\ UNCHANGED <<validateVars, spectrumVars>>

\* cls._validate_property(property_name, value, digits_only) as __init__
\* calls it for the field
Validate ==
    /\ pc = "_validate_property"
    /\ LET r == validate_property(property_name, value, property_name \in DigitsOnlyFields)
       IN  /\ validated' = r.ret
           /\ raised' = r.raised
           /\ pc' = IF r.raised = NoError THEN "done" ELSE "raised"
    /\ op' = "_validate_property"
    /\ UNCHANGED <<property_name, value, fileVars, spectrumVars>>

\* PandaFile.spectrum_to_string(harmonic_orders, magnitudes_rms, phase_angle_degree)
SpectrumToString ==
    /\ pc = "spectrum_to_string"
    /\ LET r == spectrum_to_string(harmonic_orders, magnitudes_rms, phase_angle_degree)
       IN  /\ spectrum_string' = r.ret
           /\ raised' = r.raised
           /\ pc' = IF r.raised = NoError THEN "string_to_spectrum" ELSE "raised"
    /\ op' = "spectrum_to_string"
    /\ UNCHANGED <<harmonic_orders, magnitudes_rms, phase_angle_degree, spectrum>>
    /\ UNCHANGED <<fileVars, validateVars>>

\* PandaFile.string_to_spectrum(spectrum_string)
StringToSpectrum ==
    /\ pc = "string_to_spectrum"
    /\ LET r == string_to_spectrum(spectrum_string.v)
       IN  /\ spectrum' = r.ret
           /\ raised' = r.raised
           /\ pc' = IF r.raised = NoError THEN "done" ELSE "raised"
    /\ op' = "string_to_spectrum"
    /\ UNCHANGED <<harmonic_orders, magnitudes_rms, phase_angle_degree, spectrum_string>>
    /\ UNCHANGED <<fileVars, validateVars>>

(***************************************************************************)
(* Specifications.                                                         *)
(***************************************************************************)
\* Construct a record, write it, read it back.
InitRecord ==
    /\ pc = "PandaFile" /\ op = "" /\ raised = NoError
    /\ args \in ArgSets
    /\ self = None /\ file = <<>> /\ lines = <<>> /\ idx = 0
    /\ data = EmptyDict /\ section = None /\ loaded = None
    /\ ValidateIdle /\ SpectrumIdle

NextRecord == Construct \/ ToTxt \/ FromTxtOpen \/ FromTxtLine \/ FromTxtReturn

SpecRecord == InitRecord /\ [][NextRecord]_vars

\* Read a document.
InitDoc ==
    /\ pc = "from_txt" /\ op = "" /\ raised = NoError
    /\ file \in Docs
    /\ args = None /\ self = None /\ lines = <<>> /\ idx = 0
    /\ data = EmptyDict /\ section = None /\ loaded = None
    /\ ValidateIdle /\ SpectrumIdle

NextDoc == FromTxtOpen \/ FromTxtLine \/ FromTxtReturn

SpecDoc == InitDoc /\ [][NextDoc]_vars

\* Validate one value of one field.
InitValidate ==
    /\ pc = "_validate_property" /\ op = "" /\ raised = NoError
    /\ property_name \in {ValidatedFields[k] : k \in 1..Len(ValidatedFields)}
    /\ value \in Values(property_name)
    /\ validated = None
    /\ FileIdle /\ SpectrumIdle

NextValidate == Validate

SpecValidate == InitValidate /\ [][NextValidate]_vars

\* Encode a spectrum, decode the string.
InitSpectrum ==
    /\ pc = "spectrum_to_string" /\ op = "" /\ raised = NoError
    /\ harmonic_orders \in Texts(Orders, MaxHarmonics)
    /\ magnitudes_rms \in Texts(Magnitudes, MaxHarmonics)
    /\ phase_angle_degree \in Texts(Phases, MaxHarmonics)
    /\ spectrum_string = None /\ spectrum = None
    /\ FileIdle /\ ValidateIdle

NextSpectrum == SpectrumToString \/ StringToSpectrum

SpecSpectrum == InitSpectrum /\ [][NextSpectrum]_vars

(***************************************************************************)
(* Claims about _validate_property (SpecValidate).                         *)
(***************************************************************************)
Abs(n) == IF n < 0 THEN -n ELSE n

\* C3: for each of the ten validated fields and every value, validation
\* applies the digit-only check (the digit-only fields only; an empty value or
\* a value with a character that is no digit fails it), then the allowed
\* character check on every character, then the maximum length check, and
\* raises the error of the first check violated, naming the field; when none
\* is violated the value is returned unchanged.
C3_FieldValidationOutcome ==
    pc # "_validate_property" =>
        LET digitFail ==
                /\ property_name \in {"lab_id", "user_id", "category", "sub_category", "sell_year"}
                /\ \/ Len(value) = 0
                   \/ \E k \in 1..Len(value) : value[k] \notin AsciiDigits \cup UnicodeDigits
            charFail == \E k \in 1..Len(value) : value[k] \notin ALLOWED_CHARS
            lengthFail == Len(value) > MAX_LENGTHS[property_name]
        IN  /\ digitFail =>
                pc = "raised" /\ raised = Error("ValueError", "digits", property_name)
            /\ ~digitFail /\ charFail =>
                pc = "raised" /\ raised = Error("ValueError", "characters", property_name)
            /\ ~digitFail /\ ~charFail /\ lengthFail =>
                pc = "raised" /\ raised = Error("ValueError", "length", property_name)
            /\ ~digitFail /\ ~charFail /\ ~lengthFail =>
                pc = "done" /\ raised = NoError /\ validated = PyStr(value)

\* C3's case: a value both too long and with a character that is not allowed
\* was validated, and the character error is the one raised.
C3_Witness ==
    /\ pc = "raised"
    /\ raised.rule = "characters"
    /\ Len(value) > MAX_LENGTHS[property_name]

(***************************************************************************)
(* Claims about the spectrum codec (SpecSpectrum).                         *)
(***************************************************************************)
RECURSIVE Pow10(_)
Pow10(n) == IF n <= 0 THEN 1 ELSE 10 * Pow10(n - 1)

\* |x| > 1e-08, by the decimal of x.
AboveTolerance(x) ==
    /\ Decimal(x).m # 0
    /\ \/ Decimal(x).e > -8
       \/ Abs(Decimal(x).m) > Pow10(-8 - Decimal(x).e)

NonZero(x) == Decimal(x).m # 0

EqualLengths ==
    /\ Len(harmonic_orders) = Len(magnitudes_rms)
    /\ Len(harmonic_orders) = Len(phase_angle_degree)

\* The k-th index, in increasing order, of a set of indices.
Nth(indices, k) == CHOOSE i \in indices : Cardinality({j \in indices : j < i}) = k - 1

\* The decoded lists are exactly the entries at the indices, in order, each
\* a float equal to the entry encoded.
DecodedAre(indices) ==
    /\ \A c \in 1..3 : spectrum[c].t = "list" /\ Len(spectrum[c].v) = Cardinality(indices)
    /\ \A k \in 1..Cardinality(indices) :
        /\ \A c \in 1..3 : spectrum[c].v[k].t = "float"
        /\ PyEq(spectrum[1].v[k], harmonic_orders[Nth(indices, k)])
        /\ PyEq(spectrum[2].v[k], magnitudes_rms[Nth(indices, k)])
        /\ PyEq(spectrum[3].v[k], phase_angle_degree[Nth(indices, k)])

\* The string is as many entries as indices, each order,magnitude,phase,
\* joined by '/', with no '/' at the end.
EncodedAre(indices) ==
    /\ spectrum_string.t = "str"
    /\ ~EndsWith(spectrum_string.v, "/")
    /\ Len(Split(spectrum_string.v, "/")) = Cardinality(indices)
    /\ \A k \in 1..Cardinality(indices) :
        Split(Split(spectrum_string.v, "/")[k], ",")
            = <<ToStr(harmonic_orders[Nth(indices, k)]),
                ToStr(magnitudes_rms[Nth(indices, k)]),
                ToStr(phase_angle_degree[Nth(indices, k)])>>

\* The round trip of the entries that pass Keep: it does not raise, the
\* string is their entries and the decoded lists are exactly those entries.
RoundTrip(Keep(_)) ==
    LET indices == {k \in 1..Len(magnitudes_rms) : Keep(magnitudes_rms[k])}
    IN  (EqualLengths /\ indices # {}) =>
            /\ pc # "raised"
            /\ pc \in {"string_to_spectrum", "done"} => EncodedAre(indices)
            /\ pc = "done" => DecodedAre(indices)

\* C2 as stated: for all equal-length sequences with at least one non-zero
\* magnitude, string_to_spectrum(spectrum_to_string(..)) returns exactly the
\* entries whose magnitude is non-zero, in their order, and the string has
\* the entries order,magnitude,phase joined by '/' with no trailing '/'.
C2_NonZeroRoundTrip == pc # "spectrum_to_string" => RoundTrip(NonZero)

\* C2 as amended: the same of the entries whose magnitude is more than 1e-08
\* from zero, for sequences with at least one such entry.
C2_ToleranceRoundTrip == pc # "spectrum_to_string" => RoundTrip(AboveTolerance)

\* C2's case: a spectrum of several entries, one of a magnitude within the
\* tolerance and an integer order among them, was encoded and decoded.
C2_Witness ==
    /\ pc = "done"
    /\ Len(magnitudes_rms) > Len(spectrum[2].v)
    /\ \E k \in 1..Len(magnitudes_rms) :
        AboveTolerance(magnitudes_rms[k]) /\ harmonic_orders[k].t = "int"

\* C10: spectrum_to_string first rejects sequences of unequal length with the
\* length error; for sequences of equal length of which filtering keeps no
\* entry (every magnitude within the tolerance of zero, or no entry at all)
\* it raises an error and returns no string.
C10_AllZeroEncodeFails ==
    pc # "spectrum_to_string" =>
        /\ ~EqualLengths =>
            /\ pc = "raised" /\ op = "spectrum_to_string"
            /\ raised = Error("ValueError", "length", "spectrum")
            /\ spectrum_string = None
        /\ (EqualLengths /\ \A k \in 1..Len(magnitudes_rms) : ~AboveTolerance(magnitudes_rms[k])) =>
            /\ pc = "raised" /\ op = "spectrum_to_string"
            /\ raised.type = "ValueError" /\ raised.rule # "length"
            /\ spectrum_string = None

\* C10's case: the encoding of a spectrum of equal lengths, not empty, with
\* every magnitude within the tolerance, has raised.
C10_Witness ==
    /\ pc = "raised"
    /\ EqualLengths
    /\ Len(magnitudes_rms) > 0
    /\ \A k \in 1..Len(magnitudes_rms) : ~AboveTolerance(magnitudes_rms[k])

(***************************************************************************)
(* Claims about a record written and read back (SpecRecord).               *)
(***************************************************************************)
WaveformFields == {"sample_rate", "current_data", "voltage_data"}

\* The waveform block of a record is whole: all three there or none.
WholeBlock(record) ==
    \/ \A f \in WaveformFields : record[f] = None
    \/ \A f \in WaveformFields : record[f] # None

\* The script has stopped: it ran to its end or an exception ended it.
Stopped == pc \in {"done", "raised"}

\* C1: for every combination of field values the constructor accepts,
\* writing the record with to_txt and reading it back with from_txt succeeds
\* and yields a record whose every field equals that of the original.
\* Stated for the records whose waveform block is whole and whose texts hold
\* no '=', the records that C4 and C8 are about being left to them.
C1_RecordRoundTrip ==
    (/\ Stopped
     /\ self # None
     /\ WholeBlock(self)
     /\ \A f \in Fields : self[f].t = "str" => ~Contains(self[f].v, "="))
    => /\ pc = "done"
       /\ \A f \in Fields : PyEq(loaded[f], self[f])

\* C4: in every record there is after a successful construction or a
\* successful from_txt, sample_rate, current_data and voltage_data are all
\* three present or all three absent.
C4_WaveformAllOrNothing ==
    /\ self # None => WholeBlock(self)
    /\ loaded # None => WholeBlock(loaded)

\* The start of each line to_txt writes, in order: the header line, the
\* three sections and their keys.
FixedLayout ==
    <<<<"TUDHDB_TXT_v01", "\n">>,
      <<"[", "User Detail", "]", "\n">>,
      <<"Lab_ID", " ", "=", " ">>,
      <<"User_ID", " ", "=", " ">>,
      <<"[", "EUT", "]", "\n">>,
      <<"Category", " ", "=", " ">>,
      <<"Sub_Category", " ", "=", " ">>,
      <<"Unique_ID", " ", "=", " ">>,
      <<"Manufacturer", " ", "=", " ">>,
      <<"Product_code", " ", "=", " ">>,
      <<"Sell_Country", " ", "=", " ">>,
      <<"Sell_Year", " ", "=", " ">>,
      <<"Rated_Power", " ", "=", " ">>,
      <<"Nominal_Frequency", " ", "=", " ">>,
      <<"Nominal_Voltage", " ", "=", " ">>,
      <<"Supply_Source", " ", "=", " ">>,
      <<"Description", " ", "=", " ">>,
      <<"[", "Harmonics", "]", "\n">>,
      <<"Current_Harmonics", " ", "=", " ">>,
      <<"Voltage_Harmonics", " ", "=", " ">>>>

WaveformLayout ==
    <<<<"[", "Waveforms", "]", "\n">>,
      <<"Sampling_Rate", " ", "=", " ">>,
      <<"Current_Data", " ", "=", " ">>,
      <<"Voltage_Data", " ", "=", " ">>>>

\* The lines start as the layout says, one for one, and each key line ends
\* with ';' and the line break.
LaidOut(written, layout) ==
    /\ Len(written) = Len(layout)
    /\ \A k \in 1..Len(layout) :
        /\ Len(written[k]) >= Len(layout[k])
        /\ SubSeq(written[k], 1, Len(layout[k])) = layout[k]
        /\ \/ written[k] = layout[k]
           \/ /\ layout[k][Len(layout[k])] = " "
              /\ Len(written[k]) >= Len(layout[k]) + 2
              /\ SubSeq(written[k], Len(written[k]) - 1, Len(written[k])) = <<";", "\n">>

\* C6: for every record construction accepts, to_txt completes and writes the
\* header line, then [User Detail], [EUT] and [Harmonics] with their key
\* lines in the fixed order, and then the [Waveforms] header with the
\* Sampling_Rate, Current_Data and Voltage_Data lines if and only if
\* sample_rate is not absent; nothing follows the Voltage_Harmonics line
\* when it is absent.
C6_SerializationLayout ==
    (self # None /\ pc \notin {"PandaFile", "to_txt"}) =>
        /\ ~(pc = "raised" /\ op = "to_txt")
        /\ LaidOut(ReadLines(file),
                   IF self.sample_rate = None THEN FixedLayout
                   ELSE FixedLayout \o WaveformLayout)

(***************************************************************************)
(* Claims about reading a document (SpecDoc).                              *)
(***************************************************************************)
\* The return statement of from_txt has run.
Returned == Stopped /\ op = "from_txt" /\ idx > Len(lines)

\* The texts the document gives the validated fields, once all are there.
HasText(f) ==
    /\ <<Arguments[ArgumentOf(f)].section>> \in DOMAIN data
    /\ <<Arguments[ArgumentOf(f)].key>> \in DOMAIN data[<<Arguments[ArgumentOf(f)].section>>]

TextOf(f) == data[<<Arguments[ArgumentOf(f)].section>>][<<Arguments[ArgumentOf(f)].key>>]

\* C5: from_txt fails for every document in which the text of a validated
\* field would be rejected were that same text passed to the constructor (no
\* digit-only content, a character not allowed, or more than the maximum
\* length).  Stated for the documents that hold every key, with "fails" for
\* "fails with a validation error".
C5_NoValidationBypass ==
    (/\ Returned
     /\ \A k \in 1..Len(Arguments) : HasText(Arguments[k].field)
     /\ \E k \in 1..Len(ValidatedFields) :
            validate_property(ValidatedFields[k], TextOf(ValidatedFields[k]),
                              ValidatedFields[k] \in DigitsOnlyFields).raised # NoError)
    => pc = "raised"

\* A line that opens a section: it ends in ']' once trimmed.
IsHeader(line) == EndsWith(Strip(line), "]")

\* The loop is about to read lines[idx].
AtLine == pc = "for line" /\ idx <= Len(lines)

\* C7: every line that is neither a section header nor a key line holding
\* '=' inside an open section is ignored: no error is raised, and neither
\* the mapping nor the open section changes; so for any sequence of lines,
\* the lines before the first header included.
C7_TolerantScan ==
    [][(/\ AtLine
        /\ ~IsHeader(lines[idx])
        /\ ~(Contains(lines[idx], "=") /\ section # None))
       => (raised' = NoError /\ data' = data /\ section' = section)]_vars

\* C8: for every line holding '=' inside an open section, from_txt records
\* under the trimmed text before the first '=' the text after that '=' up to
\* the first ';' (or the end of the line), trimmed; so also for a value that
\* holds further '='.  Stated for the lines that are no section header.
C8_KeyLineValue ==
    [][(/\ AtLine
        /\ ~IsHeader(lines[idx])
        /\ Contains(lines[idx], "=")
        /\ section # None)
       => LET line  == lines[idx]
              eq    == FindFrom(line, "=", 1)
              key   == Strip(SubSeq(line, 1, eq - 1))
              rest  == SubSeq(line, eq + 1, Len(line))
              semi  == FindFrom(rest, ";", 1)
              text  == Strip(IF semi = 0 THEN rest ELSE SubSeq(rest, 1, semi - 1))
          IN  /\ raised' = NoError
              /\ section' = section
              /\ key \in DOMAIN data'[section.v]
              /\ data'[section.v][key] = text]_vars

\* The [Waveforms] section of the scanned document and its three keys.
HasWaveforms == <<"Waveforms">> \in DOMAIN data

WaveformKeys == <<"Sampling_Rate", "Current_Data", "Voltage_Data">>

KeyMissing(k) == <<WaveformKeys[k]>> \notin DOMAIN data[<<"Waveforms">>]

\* A piece of Current_Data or Voltage_Data that is no number.  (Sampling_Rate
\* is converted too, by int.)
NotNumeric(k) ==
    /\ ~KeyMissing(k)
    /\ IF k = 1 THEN ~ParseInt(data[<<"Waveforms">>][<<WaveformKeys[k]>>]).ok
       ELSE \E j \in 1..Len(Split(data[<<"Waveforms">>][<<WaveformKeys[k]>>], ",")) :
                ~ParseFloat(Split(data[<<"Waveforms">>][<<WaveformKeys[k]>>], ",")[j]).ok

Defect(k) == KeyMissing(k) \/ NotNumeric(k)

\* The exception is about the waveform block.
AboutWaveforms ==
    /\ raised # NoError
    /\ raised.name \in {"Sampling_Rate", "Current_Data", "Voltage_Data",
                     "sample_rate", "current_data", "voltage_data"}

\* C9: when the scanned document has no [Waveforms] section, from_txt
\* returns a record with sample_rate, current_data and voltage_data all
\* absent; when the section is there, all three keys are required in it: a
\* missing one is a lookup error, a piece of Current_Data or Voltage_Data
\* that is no number a conversion error (the first of these on the way
\* through the three keys, unless the document failed before them); in no
\* case is a record with only part of the block returned.
C9_OptionalWaveformBlock ==
    Returned =>
        /\ ~HasWaveforms =>
            /\ ~AboutWaveforms
            /\ pc = "done" => \A f \in WaveformFields : loaded[f] = None
        /\ (HasWaveforms /\ \E k \in 1..3 : Defect(k)) =>
            /\ pc = "raised"
            /\ AboutWaveforms =>
                LET first == CHOOSE k \in 1..3 : Defect(k) /\ \A j \in 1..3 : Defect(j) => k <= j
                IN  IF KeyMissing(first)
                    THEN raised = Error("KeyError", "missing", WaveformKeys[first])
                    ELSE raised.type = "ValueError" /\ raised.rule = "conversion"
        /\ (HasWaveforms /\ \A k \in 1..3 : ~Defect(k)) =>
            /\ ~AboutWaveforms
            /\ pc = "done" => \A f \in WaveformFields : loaded[f] # None
        /\ pc = "done" => WholeBlock(loaded)

\* C9's case: a document whose [Waveforms] section holds Sampling_Rate and
\* a numeric Current_Data but no Voltage_Data was read, and the lookup failed.
C9_Witness ==
    /\ Returned
    /\ HasWaveforms
    /\ ~Defect(1) /\ ~Defect(2) /\ KeyMissing(3)
    /\ raised = Error("KeyError", "missing", "Voltage_Data")

====
